---- MODULE Spec2Model ----
(***************************************************************************)
(* Model of the SneakPeak catalog service (src/main.py): the catalog       *)
(* loader load_mock, the search predicate filter_sneakers and the three    *)
(* catalog routes /api/trending, /api/search and /api/sneakers/{id}.       *)
(*                                                                         *)
(* One behaviour is one request served over one state of the catalog file. *)
(* Strings are sequences of one-character strings; an optional value       *)
(* (Python None / a missing dict key) is the empty set, a present value v  *)
(* is {v}.                                                                 *)
(***************************************************************************)
EXTENDS Integers, Sequences, FiniteSets

VARIABLES source, op, arg, result

vars == <<source, op, arg, result>>

----------------------------------------------------------------------------
(* Bounds *)

MaxLen == 3

MaxLimit == 4

MaxPrice == 1

----------------------------------------------------------------------------
(* Optional values *)

None == {}

Some(v) == {v}

Val(o) == CHOOSE v \in o : TRUE

----------------------------------------------------------------------------
(* Strings *)

Ord(c) ==
  CASE c = " " -> 32
    [] c = "1" -> 49
    [] c = "2" -> 50
    [] c = "A" -> 65
    [] c = "B" -> 66
    [] c = "a" -> 97
    [] c = "b" -> 98
    [] c = "c" -> 99

LowerChar(c) ==
  CASE c = "A" -> "a"
    [] c = "B" -> "b"
    [] OTHER -> c

Lower(s) == [i \in 1..Len(s) |-> LowerChar(s[i])]

Contains(sub, s) ==
  \E i \in 0..(Len(s) - Len(sub)) : SubSeq(s, i + 1, i + Len(sub)) = sub

RECURSIVE StrLess(_, _)
StrLess(a, b) ==
  IF a = <<>> THEN b # <<>>
  ELSE IF b = <<>> THEN FALSE
  ELSE IF Ord(Head(a)) # Ord(Head(b)) THEN Ord(Head(a)) < Ord(Head(b))
  ELSE StrLess(Tail(a), Tail(b))

Truthy(o) == o # None /\ Val(o) # <<>>

----------------------------------------------------------------------------
(* Catalog records and the catalog file *)

Ids == {"a", "b", "c"}

Prices == 0..MaxPrice

OptPrices == {None} \cup {Some(p) : p \in Prices}

Records(ids, brands, models, colorways, dates, tagsets, sales) ==
  [id : ids, brand : brands, model : models, colorway : colorways,
   releaseDate : dates, tags : tagsets, lastSale : sales]

SeqsUpTo(S, n) == UNION {[1..k -> S] : k \in 0..n}

(* A tagged record is placed by its tag alone, so the tagged records take  *)
(* only the two extreme prices: none and the highest.                      *)
TrendRecords ==
  Records(Ids, {<<>>}, {<<>>}, {<<>>}, {None}, {{}}, OptPrices)
    \cup Records(Ids, {<<>>}, {<<>>}, {<<>>}, {None}, {{"trending"}},
                 {None, Some(MaxPrice)})

BasicRecords ==
  Records(Ids, {<<>>}, {<<>>}, {<<>>}, {None}, {{}}, OptPrices)

SearchRecords ==
  Records({"a"}, {<<"A", "b">>, <<"b">>}, {<<>>, <<"b", "A">>},
          {<<>>, <<"c">>}, {None, Some(<<"1">>), Some(<<"2">>)}, {{}},
          OptPrices)

File(data) == [status |-> "ok", data |-> data]

FailedSources ==
  {[status |-> "missing", data |-> <<>>], [status |-> "malformed", data |-> <<>>]}

----------------------------------------------------------------------------
(* load_mock: the whole read is inside try/except Exception, so a failed   *)
(* open or json.load yields the empty list and nothing is raised.          *)

(* Variant: the handler catches nothing, so a failed read propagates. *)
load_mock_uncaught(src) ==
  IF src.status = "ok"
    THEN [raised |-> FALSE, value |-> src.data]
    ELSE [raised |-> TRUE, value |-> <<>>]

load_mock(src) ==
  IF src.status = "ok"
    THEN [raised |-> FALSE, value |-> src.data]
    ELSE [raised |-> FALSE, value |-> <<>>]

(* An exception escaping a route handler is answered with status 500. *)
ServerError == [status |-> 500, body |-> <<>>]

----------------------------------------------------------------------------
(* filter_sneakers: one operator per test of the loop body; each is TRUE   *)
(* when the test sets ok = False.                                          *)

Text(it) == Lower(it.brand \o <<" ">> \o it.model \o <<" ">> \o it.colorway)

QFails(it, q) == Truthy(q) /\ ~Contains(Lower(Val(q)), Text(it))

(* Variant: brand tested with "not in", like model. *)
BrandFailsSubstring(it, brand) ==
  Truthy(brand) /\ ~Contains(Lower(Val(brand)), Lower(it.brand))

BrandFails(it, brand) == Truthy(brand) /\ Lower(it.brand) # Lower(Val(brand))

ModelFails(it, model) ==
  Truthy(model) /\ ~Contains(Lower(Val(model)), Lower(it.model))

(* Variant: "if min_price and ...", which skips a bound of 0. *)
MinPriceFailsTruthy(last_sale, min_price) ==
  /\ min_price # None
  /\ Val(min_price) # 0
  /\ (last_sale = None \/ Val(last_sale) < Val(min_price))

MinPriceFails(last_sale, min_price) ==
  min_price # None /\ (last_sale = None \/ Val(last_sale) < Val(min_price))

MaxPriceFails(last_sale, max_price) ==
  max_price # None /\ (last_sale = None \/ Val(last_sale) > Val(max_price))

ReleaseFromFails(rd, release_from) ==
  Truthy(release_from) /\ (rd = None \/ StrLess(Val(rd), Val(release_from)))

ReleaseToFails(rd, release_to) ==
  Truthy(release_to) /\ (rd = None \/ StrLess(Val(release_to), Val(rd)))

Ok(it, c) ==
  /\ ~QFails(it, c.q)
  /\ ~BrandFails(it, c.brand)
  /\ ~ModelFails(it, c.model)
  /\ ~MinPriceFails(it.lastSale, c.min_price)
  /\ ~MaxPriceFails(it.lastSale, c.max_price)
  /\ ~ReleaseFromFails(it.releaseDate, c.release_from)
  /\ ~ReleaseToFails(it.releaseDate, c.release_to)

(* Variant: res.insert(0, it). *)
ResPrepend(res, it) == <<it>> \o res

ResAppend(res, it) == Append(res, it)

RECURSIVE FilterLoop(_, _, _, _)
FilterLoop(items, c, i, res) ==
  IF i > Len(items) THEN res
  ELSE FilterLoop(items, c, i + 1,
                  IF Ok(items[i], c) THEN ResAppend(res, items[i]) ELSE res)

filter_sneakers(items, c) == FilterLoop(items, c, 1, <<>>)

----------------------------------------------------------------------------
(* trending *)

IsTagged(d) == "trending" \in d.tags

SortKey(x) == IF x.lastSale = None THEN 0 ELSE Val(x.lastSale)

(* Variant: an unstable descending sort that puts x before its equals. *)
RECURSIVE InsertDescTiesFirst(_, _)
InsertDescTiesFirst(x, s) ==
  IF s = <<>> THEN <<x>>
  ELSE IF SortKey(Head(s)) > SortKey(x)
    THEN <<Head(s)>> \o InsertDescTiesFirst(x, Tail(s))
  ELSE <<x>> \o s

(* sorted(..., reverse=True) is stable: x goes after every element whose   *)
(* key is not smaller, so equal keys keep their input order.               *)
RECURSIVE InsertDesc(_, _)
InsertDesc(x, s) ==
  IF s = <<>> THEN <<x>>
  ELSE IF SortKey(Head(s)) >= SortKey(x) THEN <<Head(s)>> \o InsertDesc(x, Tail(s))
  ELSE <<x>> \o s

RECURSIVE SortedDesc(_, _, _)
SortedDesc(data, i, acc) ==
  IF i > Len(data) THEN acc
  ELSE SortedDesc(data, i + 1, InsertDesc(data[i], acc))

sorted(data) == SortedDesc(data, 1, <<>>)

Wanted(item, ids) == item.id \notin ids

(* Variant: the loop stops one record early. *)
FullEarly(tagged, limit) == Len(tagged) >= limit - 1

Full(tagged, limit) == Len(tagged) >= limit

RECURSIVE FillLoop(_, _, _, _, _)
FillLoop(remaining, i, tagged, ids, limit) ==
  IF i > Len(remaining) THEN tagged
  ELSE LET t == IF Wanted(remaining[i], ids)
                  THEN Append(tagged, remaining[i]) ELSE tagged
       IN IF Full(t, limit) THEN t
          ELSE FillLoop(remaining, i + 1, t, ids, limit)

(* Variant: "return tagged" without the slice. *)
SliceAll(s, limit) == s

Slice(s, limit) == SubSeq(s, 1, IF limit < Len(s) THEN limit ELSE Len(s))

TrendingBody(data, limit) ==
  LET tagged == SelectSeq(data, IsTagged)
  IN IF Len(tagged) < limit
       THEN Slice(FillLoop(sorted(data), 1, tagged,
                           {tagged[k].id : k \in 1..Len(tagged)}, limit), limit)
       ELSE Slice(tagged, limit)

trending(src, limit) ==
  LET l == load_mock(src)
  IN IF l.raised THEN ServerError
     ELSE [status |-> 200, body |-> TrendingBody(l.value, limit)]

----------------------------------------------------------------------------
(* search *)

search(src, c) ==
  LET l == load_mock(src)
  IN IF l.raised THEN ServerError
     ELSE [status |-> 200, body |-> filter_sneakers(l.value, c)]

----------------------------------------------------------------------------
(* sneaker_detail *)

(* Variant: the scan keeps going and answers with the last match. *)
ScanLast(data, i, sneaker_id) ==
  LET hits == {k \in i..Len(data) : data[k].id = sneaker_id}
  IN IF hits = {} THEN [status |-> 404, body |-> "Sneaker not found"]
     ELSE [status |-> 200,
           body |-> data[CHOOSE k \in hits : \A h \in hits : h <= k]]

RECURSIVE Scan(_, _, _)
Scan(data, i, sneaker_id) ==
  IF i > Len(data) THEN [status |-> 404, body |-> "Sneaker not found"]
  ELSE IF data[i].id = sneaker_id THEN [status |-> 200, body |-> data[i]]
  ELSE Scan(data, i + 1, sneaker_id)

sneaker_detail(src, sneaker_id) ==
  LET l == load_mock(src)
  IN IF l.raised THEN ServerError
     ELSE Scan(l.value, 1, sneaker_id)

----------------------------------------------------------------------------
(* Requests *)

NoCriteria ==
  [q |-> None, brand |-> None, model |-> None, min_price |-> None,
   max_price |-> None, release_from |-> None, release_to |-> None]

Opt(S) == {None} \cup {Some(v) : v \in S}

SearchCriteria ==
  [q : Opt({<<>>, <<"B", " ", "B">>, <<"c">>}),
   brand : Opt({<<>>, <<"a", "B">>, <<"b">>}),
   model : Opt({<<>>, <<"A">>}),
   min_price : OptPrices,
   max_price : OptPrices,
   release_from : Opt({<<>>, <<"1", "2">>}),
   release_to : Opt({<<>>, <<"2">>})]

PriceCriteria ==
  {[NoCriteria EXCEPT !.min_price = lo, !.max_price = hi] :
     lo \in OptPrices, hi \in OptPrices}

Limits == 0..MaxLimit

DetailIds == Ids \cup {"z"}

TrendingRequest(limits) ==
  /\ op = "idle"
  /\ \E limit \in limits :
       /\ op' = "trending"
       /\ arg' = [limit |-> limit]
       /\ result' = trending(source, limit)
  /\ UNCHANGED source

SearchRequest(criteria) ==
  /\ op = "idle"
  /\ \E c \in criteria :
       /\ op' = "search"
       /\ arg' = c
       /\ result' = search(source, c)
  /\ UNCHANGED source

SneakerDetailRequest(ids) ==
  /\ op = "idle"
  /\ \E sneaker_id \in ids :
       /\ op' = "detail"
       /\ arg' = [sneaker_id |-> sneaker_id]
       /\ result' = sneaker_detail(source, sneaker_id)
  /\ UNCHANGED source

Idle == op = "idle" /\ arg = <<>> /\ result = [status |-> 0, body |-> <<>>]

(* Any catalog file, any of the three catalog routes. *)
Init ==
  /\ source \in {File(d) : d \in SeqsUpTo(BasicRecords, MaxLen)} \cup FailedSources
  /\ Idle

Next ==
  \/ TrendingRequest(Limits)
  \/ SearchRequest(PriceCriteria)
  \/ SneakerDetailRequest(DetailIds)

Spec == Init /\ [][Next]_vars

(* /api/trending over catalogs that vary id, tag and last sale. *)
InitTrending ==
  /\ source \in {File(d) : d \in SeqsUpTo(TrendRecords, MaxLen)}
  /\ Idle

NextTrending == TrendingRequest(Limits)

SpecTrending == InitTrending /\ [][NextTrending]_vars

(* /api/search: one record of every shape against every criteria set. *)
InitSearch ==
  /\ source \in {File(<<r>>) : r \in SearchRecords}
  /\ Idle

NextSearch == SearchRequest(SearchCriteria)

SpecSearch == InitSearch /\ [][NextSearch]_vars

----------------------------------------------------------------------------
(* Vocabulary of the properties *)

Data == source.data

Body == result.body

TrendingDone == op = "trending" /\ source.status = "ok" /\ arg.limit > 0

Tagged == SelectSeq(Data, IsTagged)

TaggedIds == {Tagged[k].id : k \in 1..Len(Tagged)}

BodyIds == {Body[k].id : k \in 1..Len(Body)}

PriceOrZero(r) == IF r.lastSale = None THEN 0 ELSE Val(r.lastSale)

Min(a, b) == IF a < b THEN a ELSE b

IsPrefix(a, b) == Len(a) <= Len(b) /\ SubSeq(b, 1, Len(a)) = a

RECURSIVE IsSubseq(_, _)
IsSubseq(a, b) ==
  \/ a = <<>>
  \/ /\ b # <<>>
     /\ IF Head(a) = Head(b) THEN IsSubseq(Tail(a), Tail(b))
        ELSE IsSubseq(a, Tail(b))

----------------------------------------------------------------------------
(* C1: for every catalog and every positive limit, the list returned by    *)
(* trending holds no two entries with the same id, also when several       *)
(* records of the catalog share an id.                                     *)
C1_NoDuplicateIds ==
  TrendingDone =>
    \A i \in 1..Len(Body) : \A j \in 1..Len(Body) :
      i # j => Body[i].id # Body[j].id

(* C2: when at least limit records are tagged "trending", trending returns *)
(* exactly the first limit tagged records in catalog order, and no         *)
(* untagged record.                                                        *)
C2_FirstLimitTagged ==
  (TrendingDone /\ Len(Tagged) >= arg.limit) =>
    /\ result.status = 200
    /\ Body = SubSeq(Tagged, 1, arg.limit)
    /\ \A k \in 1..Len(Body) : IsTagged(Body[k])

C2_Witness ==
  /\ TrendingDone
  /\ Len(Tagged) > arg.limit
  /\ Len(Data) > Len(Tagged)
  /\ ~IsTagged(Data[1])
  /\ Len(Body) = arg.limit

(* C3: for a catalog with fewer records than limit, trending returns every *)
(* record of the catalog once, deduplicated by id (one entry per id of the *)
(* catalog, each a catalog record), the tagged ones before the untagged.   *)
C3_WholeCatalogDeduplicated ==
  (TrendingDone /\ Len(Data) < arg.limit) =>
    /\ \A i \in 1..Len(Body) : \A j \in 1..Len(Body) :
         i # j => Body[i].id # Body[j].id
    /\ BodyIds = {Data[k].id : k \in 1..Len(Data)}
    /\ \A i \in 1..Len(Body) : \E k \in 1..Len(Data) : Body[i] = Data[k]
    /\ \A i \in 1..Len(Body) : \A j \in 1..Len(Body) :
         (i < j /\ IsTagged(Body[j])) => IsTagged(Body[i])

(* C4: trending returns at most limit records, and fewer than limit only   *)
(* when no record of the catalog has an id that the result does not use.   *)
C4_AtMostLimit ==
  TrendingDone =>
    /\ Len(Body) <= arg.limit
    /\ Len(Body) < arg.limit => \A k \in 1..Len(Data) : Data[k].id \in BodyIds

C4_Witness ==
  /\ TrendingDone
  /\ Len(Body) < arg.limit
  /\ Len(Body) < Len(Data)
  /\ Len(Body) > Len(Tagged)

(* C10: when fewer than limit records are tagged, the records appended     *)
(* after the tagged ones are the records whose id no tagged record has,    *)
(* taken in descending order of last-sale price with an absent price       *)
(* counted as 0; appended records of equal price keep their catalog order. *)
Appended == SubSeq(Body, Len(Tagged) + 1, Len(Body))

Eligible == LET Free(r) == r.id \notin TaggedIds IN SelectSeq(Data, Free)

AtPrice(s, p) == LET Same(r) == PriceOrZero(r) = p IN SelectSeq(s, Same)

C10_FillByPriceStable ==
  (TrendingDone /\ Len(Tagged) < arg.limit) =>
    /\ IsPrefix(Tagged, Body)
    /\ Len(Appended) = Min(arg.limit - Len(Tagged), Len(Eligible))
    /\ \A i \in 1..Len(Appended) : Appended[i].id \notin TaggedIds
    /\ \A i \in 1..Len(Appended) : \A j \in 1..Len(Appended) :
         i < j => PriceOrZero(Appended[i]) >= PriceOrZero(Appended[j])
    /\ \A p \in Prices : IsPrefix(AtPrice(Appended, p), AtPrice(Eligible, p))
    /\ \A p \in Prices : \A q \in Prices :
         (p > q /\ AtPrice(Appended, q) # <<>>) =>
           AtPrice(Appended, p) = AtPrice(Eligible, p)

C10_Witness ==
  /\ TrendingDone
  /\ Len(Tagged) = 1
  /\ Len(Appended) = 2
  /\ Len(Eligible) = 2
  /\ Appended[1].lastSale = None
  /\ Appended[2].lastSale = Some(0)
  /\ Appended[1].id # Appended[2].id

----------------------------------------------------------------------------
(* Search criteria as the specification words them.  A string criterion    *)
(* counts as supplied when it is present; with emptyCounts = FALSE an      *)
(* empty string counts as not supplied.                                    *)

Supplied(o, emptyCounts) == o # None /\ (emptyCounts \/ Val(o) # <<>>)

Passes(r, c, emptyCounts) ==
  /\ Supplied(c.q, emptyCounts) =>
       Contains(Lower(Val(c.q)),
                Lower(r.brand \o <<" ">> \o r.model \o <<" ">> \o r.colorway))
  /\ Supplied(c.brand, emptyCounts) => Lower(r.brand) = Lower(Val(c.brand))
  /\ Supplied(c.model, emptyCounts) =>
       Contains(Lower(Val(c.model)), Lower(r.model))
  /\ c.min_price # None =>
       (r.lastSale # None /\ Val(r.lastSale) >= Val(c.min_price))
  /\ c.max_price # None =>
       (r.lastSale # None /\ Val(r.lastSale) <= Val(c.max_price))
  /\ Supplied(c.release_from, emptyCounts) =>
       (r.releaseDate # None /\ ~StrLess(Val(r.releaseDate), Val(c.release_from)))
  /\ Supplied(c.release_to, emptyCounts) =>
       (r.releaseDate # None /\ ~StrLess(Val(c.release_to), Val(r.releaseDate)))

InBody(r) == \E k \in 1..Len(Body) : Body[k] = r

SearchDone == op = "search" /\ source.status = "ok"

(* C5 as stated: a record is in the output of filter exactly when it       *)
(* passes every supplied criterion, an empty string counting as supplied.  *)
C5_InOutputIffPassesSupplied ==
  SearchDone =>
    \A k \in 1..Len(Data) : InBody(Data[k]) <=> Passes(Data[k], arg, TRUE)

(* C5 amended: a record is in the output of filter exactly when it passes  *)
(* every supplied criterion, where a q, brand, model, releaseFrom or       *)
(* releaseTo that is the empty string imposes no constraint and a price    *)
(* bound applies for every supplied value, 0 included.                     *)
C5_InOutputIffPassesNonEmpty ==
  SearchDone =>
    \A k \in 1..Len(Data) : InBody(Data[k]) <=> Passes(Data[k], arg, FALSE)

C5_Witness ==
  /\ SearchDone
  /\ \A f \in DOMAIN arg : arg[f] # None
  /\ \A f \in {"q", "brand", "model", "release_from", "release_to"} :
       Val(arg[f]) # <<>>
  /\ Body = Data
  /\ Data # <<>>

(* C6: the output of filter is a subsequence of its input: every output    *)
(* record is an input record, none more often than in the input, in the    *)
(* input order.                                                            *)
C6_OutputIsSubsequence == SearchDone => IsSubseq(Body, Data)

C6_Witness ==
  /\ SearchDone
  /\ Len(Body) = 2
  /\ Len(Data) = 3
  /\ Body[1] # Body[2]
  /\ Body[1] = Data[1]
  /\ Body[2] = Data[3]

(* C7: with minPrice p supplied (p = 0 included) every output record has a *)
(* last-sale price that is present and >= p; with maxPrice p supplied,     *)
(* present and <= p; a record without last-sale price is never returned    *)
(* when a price bound is supplied.                                         *)
C7_PriceBoundsRespected ==
  SearchDone =>
    \A k \in 1..Len(Body) :
      /\ arg.min_price # None =>
           (Body[k].lastSale # None /\ Val(Body[k].lastSale) >= Val(arg.min_price))
      /\ arg.max_price # None =>
           (Body[k].lastSale # None /\ Val(Body[k].lastSale) <= Val(arg.max_price))

C7_Witness ==
  /\ SearchDone
  /\ arg.min_price = Some(0)
  /\ arg.max_price = None
  /\ \E k \in 1..Len(Data) : Data[k].lastSale = None
  /\ \E k \in 1..Len(Body) : Body[k].lastSale = Some(0)

(* C8: detail lookup returns the first record in catalog order whose id is *)
(* the requested id when there is one, and answers 404 exactly when no     *)
(* record of the catalog has that id.                                      *)
Hits == {k \in 1..Len(Data) : Data[k].id = arg.sneaker_id}

C8_FirstMatchOrNotFound ==
  (op = "detail" /\ source.status = "ok") =>
    IF Hits = {}
      THEN result.status = 404
      ELSE /\ result.status = 200
           /\ \E k \in Hits : (\A h \in Hits : k <= h) /\ Body = Data[k]

C8_Witness ==
  /\ op = "detail"
  /\ source.status = "ok"
  /\ result.status = 200
  /\ \E h \in Hits : Data[h] # Body

(* C9: when reading or parsing the catalog source fails, load returns the  *)
(* empty sequence and raises nothing; search and trending then answer with *)
(* an empty list and a detail lookup answers 404.                          *)
C9_LoadFailureDegradesToEmpty ==
  source.status # "ok" =>
    /\ load_mock(source) = [raised |-> FALSE, value |-> <<>>]
    /\ op \in {"trending", "search"} => result = [status |-> 200, body |-> <<>>]
    /\ op = "detail" => result.status = 404

C9_Witness ==
  /\ source.status = "malformed"
  /\ op = "trending"
  /\ arg.limit > 0
  /\ result.status = 200

====
